---- MODULE Spec2Model ----
(***************************************************************************)
(* mymyka/tables: PostgreSQL schema -> Go type aliases.                    *)
(*                                                                         *)
(* Go strings are modelled as TLA+ strings; the string functions of the    *)
(* Go standard library that the program calls are operators over them,     *)
(* computed character by character.                                        *)
(***************************************************************************)
EXTENDS Integers, Sequences, FiniteSets, TLC

(***************************************************************************)
(* Go standard library: strings, unicode                                   *)
(***************************************************************************)
UpperLetters == "ABCDEFGHIJKLMNOPQRSTUVWXYZ"
LowerLetters == "abcdefghijklmnopqrstuvwxyz"

At(s, i) == SubSeq(s, i, i)

LetterIndex == 1..Len(UpperLetters)

\* unicode.ToLower / unicode.ToUpper on the ASCII letters
LowerOf == [c \in {At(UpperLetters, i) : i \in LetterIndex} |->
              At(LowerLetters, CHOOSE i \in LetterIndex : At(UpperLetters, i) = c)]
UpperOf == [c \in {At(LowerLetters, i) : i \in LetterIndex} |->
              At(UpperLetters, CHOOSE i \in LetterIndex : At(LowerLetters, i) = c)]

ToLowerChar(c) == IF c \in DOMAIN LowerOf THEN LowerOf[c] ELSE c

ToUpperChar(c) == IF c \in DOMAIN UpperOf THEN UpperOf[c] ELSE c

RECURSIVE ToLower(_)
ToLower(s) ==
  IF Len(s) = 0 THEN "" ELSE ToLowerChar(At(s, 1)) \o ToLower(SubSeq(s, 2, Len(s)))

RECURSIVE ToUpper(_)
ToUpper(s) ==
  IF Len(s) = 0 THEN "" ELSE ToUpperChar(At(s, 1)) \o ToUpper(SubSeq(s, 2, Len(s)))

IsSpace(c) == c \in {" ", "\t", "\n", "\r", "\f"}

RECURSIVE TrimLeft(_)
TrimLeft(s) ==
  IF Len(s) > 0 /\ IsSpace(At(s, 1)) THEN TrimLeft(SubSeq(s, 2, Len(s))) ELSE s

RECURSIVE TrimRight(_)
TrimRight(s) ==
  IF Len(s) > 0 /\ IsSpace(At(s, Len(s))) THEN TrimRight(SubSeq(s, 1, Len(s) - 1)) ELSE s

TrimSpace(s) == TrimRight(TrimLeft(s))

HasPrefix(s, p) == Len(s) >= Len(p) /\ SubSeq(s, 1, Len(p)) = p

HasSuffix(s, p) == Len(s) >= Len(p) /\ SubSeq(s, Len(s) - Len(p) + 1, Len(s)) = p

RECURSIVE IndexFrom(_, _, _)
IndexFrom(s, sep, i) ==
  IF i + Len(sep) - 1 > Len(s) THEN -1
  ELSE IF SubSeq(s, i, i + Len(sep) - 1) = sep THEN i - 1
  ELSE IndexFrom(s, sep, i + 1)

\* strings.Index: 0-based position of the first occurrence of sep, -1 when absent
Index(s, sep) == IndexFrom(s, sep, 1)

\* strings.Split(s, sep) for a non-empty sep: always at least one part
RECURSIVE Split(_, _)
Split(s, sep) ==
  LET idx == Index(s, sep)
  IN  IF idx = -1 THEN <<s>>
      ELSE <<SubSeq(s, 1, idx)>> \o Split(SubSeq(s, idx + Len(sep) + 1, Len(s)), sep)

RECURSIVE Join(_, _)
Join(parts, sep) ==
  IF Len(parts) = 0 THEN ""
  ELSE IF Len(parts) = 1 THEN parts[1]
  ELSE parts[1] \o sep \o Join(Tail(parts), sep)

RECURSIVE Concat(_)
Concat(parts) == IF Len(parts) = 0 THEN "" ELSE parts[1] \o Concat(Tail(parts))

(***************************************************************************)
(* internal/builder                                                        *)
(***************************************************************************)

\* the case clauses of the switch in postgresTypeToGoType, in source order
TypeCases == <<
  [names |-> {"smallint", "int2"},                     goType |-> "int16"],
  [names |-> {"integer", "int", "int4"},               goType |-> "int32"],
  [names |-> {"bigint", "int8"},                       goType |-> "int64"],
  [names |-> {"serial", "serial4"},                    goType |-> "int32"],
  [names |-> {"bigserial", "serial8"},                 goType |-> "int64"],
  [names |-> {"smallserial", "serial2"},               goType |-> "int16"],
  [names |-> {"real", "float4"},                       goType |-> "float32"],
  [names |-> {"double precision", "float8"},           goType |-> "float64"],
  [names |-> {"numeric", "decimal"},                   goType |-> "decimal.Decimal"],
  [names |-> {"character varying", "varchar"},         goType |-> "string"],
  [names |-> {"character", "char"},                    goType |-> "string"],
  [names |-> {"text"},                                 goType |-> "string"],
  [names |-> {"boolean", "bool"},                      goType |-> "bool"],
  [names |-> {"timestamp", "timestamp with time zone", "timestamptz"},
                                                       goType |-> "time.Time"],
  [names |-> {"timestamp without time zone"},          goType |-> "time.Time"],
  [names |-> {"date"},                                 goType |-> "time.Time"],
  [names |-> {"time", "time with time zone", "timetz"}, goType |-> "time.Time"],
  [names |-> {"time without time zone"},               goType |-> "time.Time"],
  [names |-> {"interval"},                             goType |-> "time.Duration"],
  [names |-> {"uuid"},                                 goType |-> "uuid.UUID"],
  [names |-> {"json"},                                 goType |-> "json.RawMessage"],
  [names |-> {"jsonb"},                                goType |-> "json.RawMessage"],
  [names |-> {"bytea"},                                goType |-> "[]byte"],
  [names |-> {"inet"},                                 goType |-> "string"],
  [names |-> {"cidr"},                                 goType |-> "string"],
  [names |-> {"macaddr"},                              goType |-> "string"],
  [names |-> {"macaddr8"},                             goType |-> "string"],
  [names |-> {"point"},                                goType |-> "string"],
  [names |-> {"line"},                                 goType |-> "string"],
  [names |-> {"lseg"},                                 goType |-> "string"],
  [names |-> {"box"},                                  goType |-> "string"],
  [names |-> {"path"},                                 goType |-> "string"],
  [names |-> {"polygon"},                              goType |-> "string"],
  [names |-> {"circle"},                               goType |-> "string"],
  [names |-> {"int4range"},                            goType |-> "string"],
  [names |-> {"int8range"},                            goType |-> "string"],
  [names |-> {"numrange"},                             goType |-> "string"],
  [names |-> {"tsrange"},                              goType |-> "string"],
  [names |-> {"tstzrange"},                            goType |-> "string"],
  [names |-> {"daterange"},                            goType |-> "string"],
  [names |-> {"text[]", "varchar[]", "character varying[]"}, goType |-> "[]string"],
  [names |-> {"integer[]", "int4[]"},                  goType |-> "[]int32"],
  [names |-> {"bigint[]", "int8[]"},                   goType |-> "[]int64"],
  [names |-> {"smallint[]", "int2[]"},                 goType |-> "[]int16"],
  [names |-> {"boolean[]", "bool[]"},                  goType |-> "[]bool"],
  [names |-> {"real[]", "float4[]"},                   goType |-> "[]float32"],
  [names |-> {"double precision[]", "float8[]"},       goType |-> "[]float64"],
  [names |-> {"money"},                                goType |-> "string"],
  [names |-> {"enum"},                                 goType |-> "string"],
  [names |-> {"xml"},                                  goType |-> "string"],
  [names |-> {"bit"},                                  goType |-> "string"],
  [names |-> {"bit varying", "varbit"},                goType |-> "string"],
  [names |-> {"tsvector"},                             goType |-> "string"],
  [names |-> {"tsquery"},                              goType |-> "string"],
  [names |-> {"pg_lsn"},                               goType |-> "string"],
  [names |-> {"pg_snapshot"},                          goType |-> "string"],
  [names |-> {"txid_snapshot"},                        goType |-> "string"] >>

\* the names the switch lists
ListedNames == UNION {TypeCases[i].names : i \in DOMAIN TypeCases}

\* lines 101-106: lower-case, trim, then cut at the first "("
normalizeType(pgType) ==
  LET lowered == ToLower(TrimSpace(pgType))
      idx     == Index(lowered, "(")
  IN  IF idx # -1 THEN SubSeq(lowered, 1, idx) ELSE lowered

\* mutant: the default branch without the "[]" test
postgresTypeToGoType_NoArrayFallback(pgType) ==
  LET normalizedType == normalizeType(pgType)
  IN  IF \E i \in DOMAIN TypeCases : normalizedType \in TypeCases[i].names
      THEN TypeCases[CHOOSE i \in DOMAIN TypeCases :
                       normalizedType \in TypeCases[i].names].goType
      ELSE "string"

postgresTypeToGoType(pgType) ==
  LET normalizedType == normalizeType(pgType)
  IN  IF \E i \in DOMAIN TypeCases : normalizedType \in TypeCases[i].names
      THEN TypeCases[CHOOSE i \in DOMAIN TypeCases :
                       normalizedType \in TypeCases[i].names].goType
      ELSE IF HasSuffix(normalizedType, "[]") THEN "[]interface{}"
      ELSE "string"

capitalizeFirst(s) ==
  IF Len(s) = 0 THEN s ELSE ToUpperChar(At(s, 1)) \o SubSeq(s, 2, Len(s))

RECURSIVE pascalParts(_)
pascalParts(parts) ==
  IF Len(parts) = 0 THEN ""
  ELSE (IF Len(parts[1]) > 0 THEN capitalizeFirst(parts[1]) ELSE "")
         \o pascalParts(Tail(parts))

toPascalCase(s) == IF Len(s) = 0 THEN s ELSE pascalParts(Split(s, "_"))

\* mutant: the pointer marker is left off pointer-free slice types
buildType_MarkerByType(c) ==
  "type " \o toPascalCase(c.Name) \o " = "
    \o (IF c.Nullable /\ ~HasPrefix(postgresTypeToGoType(c.Type), "[]") THEN "*" ELSE "")
    \o postgresTypeToGoType(c.Type)

buildType(c) ==
  "type " \o toPascalCase(c.Name) \o " = "
    \o (IF c.Nullable THEN "*" ELSE "")
    \o postgresTypeToGoType(c.Type)

\* the switch of buildImports (lines 42-51) on one column
needsTime(c) ==
  ToLower(c.Type) \in {"timestamp", "timestamp with time zone",
                       "timestamp without time zone", "date", "time",
                       "time with time zone", "time without time zone"}
needsUUID(c)    == ToLower(c.Type) \in {"uuid"}
needsJSON(c)    == ToLower(c.Type) \in {"json", "jsonb"}
needsDecimal(c) == ToLower(c.Type) \in {"numeric", "decimal"}

Quote(s) == "\"" \o s \o "\""

buildImports(t) ==
  LET cols == {t.Columns[i] : i \in DOMAIN t.Columns}
      nTime    == \E c \in cols : needsTime(c)
      nUUID    == \E c \in cols : needsUUID(c)
      nJSON    == \E c \in cols : needsJSON(c)
      nDecimal == \E c \in cols : needsDecimal(c)
      imports  == (IF nJSON THEN <<Quote("encoding/json")>> ELSE <<>>)
                    \o (IF nDecimal THEN <<Quote("github.com/shopspring/decimal")>> ELSE <<>>)
                    \o (IF nTime THEN <<Quote("time")>> ELSE <<>>)
                    \o (IF nUUID THEN <<Quote("github.com/google/uuid")>> ELSE <<>>)
  IN  IF ~nTime /\ ~nUUID /\ ~nJSON /\ ~nDecimal THEN ""
      ELSE "import (\n\t" \o Join(imports, "\n\t") \o "\n)"

\* mutant: the loop stops one column short
buildTable_DropLast(t) ==
  "\n" \o Concat([i \in 1..(Len(t.Columns) - 1) |-> buildType(t.Columns[i]) \o "\n"])

buildTable(t) ==
  "\n" \o Concat([i \in DOMAIN t.Columns |-> buildType(t.Columns[i]) \o "\n"])

buildColumnNamesStruct(t) ==
  LET structName == t.Name \o "ColumnNames"
  IN  "type " \o structName \o " struct {\n"
        \o Concat([i \in DOMAIN t.Columns |->
                     "\t" \o toPascalCase(t.Columns[i].Name) \o " string\n"])
        \o "}\n\n"
        \o "var C = " \o structName \o "{\n"
        \o Concat([i \in DOMAIN t.Columns |->
                     "\t" \o toPascalCase(t.Columns[i].Name) \o ": \""
                          \o t.Columns[i].Name \o "\",\n"])
        \o "}\n\n"
        \o "var Table = \"" \o t.Name \o "\"\n"

\* the body of the loop of Build: the unit of one table
buildBlock(t) ==
  "package " \o t.Name \o "\n\n"
    \o (IF buildImports(t) # "" THEN buildImports(t) \o "\n" ELSE "")
    \o buildTable(t) \o "\n"
    \o buildColumnNamesStruct(t) \o "\n"

\* Build: a map keyed by table name; a later table of the same name overwrites
Build(tables) ==
  [n \in {tables[i].Name : i \in DOMAIN tables} |->
     buildBlock(tables[CHOOSE i \in DOMAIN tables :
                         /\ tables[i].Name = n
                         /\ \A j \in DOMAIN tables : tables[j].Name = n => j <= i])]

(***************************************************************************)
(* State                                                                   *)
(***************************************************************************)
VARIABLES
  pc,         \* position of generateTypes
  rows,       \* the result set of the schema query
  pos,        \* rows consumed by rows.Next()
  rowsErr,    \* what rows.Err() would report
  tablesMap,  \* GetTables: table name -> columns read so far
  tables,     \* the slice GetTables returns
  block,      \* the map Build returns: table name -> unit text
  todo,       \* Write: keys of the map not yet visited by the range loop
  dirs,       \* directories under the output root
  files,      \* files under the output root: table name -> content
  outcome,    \* the last line main prints or logs
  mBase,      \* type mapper: a type name
  mType,      \* type mapper: a spelling of mBase, the raw type of the column
  mName,      \* type mapper: the column name
  mRes        \* type mapper: results computed so far

runVars    == <<pc, rows, pos, rowsErr, tablesMap, tables, block, todo, dirs, files, outcome>>
mapperVars == <<mBase, mType, mName, mRes>>
vars       == <<pc, rows, pos, rowsErr, tablesMap, tables, block, todo, dirs, files,
                outcome, mBase, mType, mName, mRes>>

\* bounds
MaxRows == 3
MaxCols == 3
MaxPad  == 1

EmptyMap == <<>>

Put(m, k, v) == [x \in DOMAIN m \cup {k} |-> IF x = k THEN v ELSE m[x]]

RECURSIVE SeqsUpTo(_, _)
SeqsUpTo(S, n) ==
  IF n = 0 THEN {<<>>}
  ELSE SeqsUpTo(S, n - 1) \cup {Append(q, x) : q \in {r \in SeqsUpTo(S, n - 1) : Len(r) = n - 1}, x \in S}

MsgNone         == ""
MsgQueryFailed  == "Failed to get tables: failed to query schema"
MsgScanFailed   == "Failed to get tables: failed to scan row"
MsgWriteFailed  == "Failed to write files"
MsgSuccess      == "Successfully generated types"

MapperIdle ==
  /\ mBase = "" /\ mType = "" /\ mName = "" /\ mRes = EmptyMap

(***************************************************************************)
(* A run of the command: generateTypes                                     *)
(***************************************************************************)
\* table names in the order ORDER BY t.table_name gives them
RunTableNames == <<"orders", "users">>

RunColumns == {
  [column_name |-> "id",         data_type |-> "integer",                  is_nullable |-> "NO"],
  [column_name |-> "note",       data_type |-> "text",                     is_nullable |-> "YES"],
  [column_name |-> "created_at", data_type |-> "timestamp with time zone", is_nullable |-> "NO"] }

RunRows ==
  {[table_idx |-> i, table_name |-> RunTableNames[i], column_name |-> c.column_name,
    data_type |-> c.data_type, is_nullable |-> c.is_nullable] :
      i \in DOMAIN RunTableNames, c \in RunColumns}

\* result sets: ordered by table name, a column name once per table
ResultSets ==
  {rs \in SeqsUpTo(RunRows, MaxRows) :
     /\ \A i \in 1..(Len(rs) - 1) : rs[i].table_idx <= rs[i + 1].table_idx
     /\ \A i, j \in DOMAIN rs :
          (i # j /\ rs[i].table_name = rs[j].table_name)
            => rs[i].column_name # rs[j].column_name}

Init ==
  /\ pc = "query"
  /\ rows \in ResultSets
  /\ pos = 0
  /\ rowsErr = FALSE
  /\ tablesMap = EmptyMap
  /\ tables = <<>>
  /\ block = EmptyMap
  /\ todo = {}
  /\ dirs = {}
  /\ files = EmptyMap
  /\ outcome = MsgNone
  /\ MapperIdle

\* db.Query fails: GetTables returns the error, generateTypes log.Fatal's
QueryFail ==
  /\ pc = "query"
  /\ pc' = "fatal"
  /\ outcome' = MsgQueryFailed
  /\ UNCHANGED <<rows, pos, rowsErr, tablesMap, tables, block, todo, dirs, files>>
  /\ UNCHANGED mapperVars

QueryOk ==
  /\ pc = "query"
  /\ pc' = "rows"
  /\ UNCHANGED <<rows, pos, rowsErr, tablesMap, tables, block, todo, dirs, files, outcome>>
  /\ UNCHANGED mapperVars

\* one iteration of the loop: rows.Next() is true and rows.Scan succeeds
ScanRow ==
  /\ pc = "rows"
  /\ pos < Len(rows)
  /\ LET r      == rows[pos + 1]
         column == [Name |-> r.column_name, Type |-> r.data_type,
                    Nullable |-> (r.is_nullable = "YES")]
         sofar  == IF r.table_name \in DOMAIN tablesMap
                   THEN tablesMap[r.table_name] ELSE <<>>
     IN  tablesMap' = Put(tablesMap, r.table_name, Append(sofar, column))
  /\ pos' = pos + 1
  /\ UNCHANGED <<pc, rows, rowsErr, tables, block, todo, dirs, files, outcome>>
  /\ UNCHANGED mapperVars

\* rows.Next() is true and rows.Scan fails
ScanFail ==
  /\ pc = "rows"
  /\ pos < Len(rows)
  /\ pc' = "fatal"
  /\ outcome' = MsgScanFailed
  /\ UNCHANGED <<rows, pos, rowsErr, tablesMap, tables, block, todo, dirs, files>>
  /\ UNCHANGED mapperVars

\* all orders of the entries of the map
SlicesOf(m) ==
  {q \in SeqsUpTo({[Name |-> n, Columns |-> m[n]] : n \in DOMAIN m}, Cardinality(DOMAIN m)) :
     /\ Len(q) = Cardinality(DOMAIN m)
     /\ \A i, j \in DOMAIN q : i # j => q[i].Name # q[j].Name}

\* rows.Next() is false, at the end of the result set (failed = FALSE) or because
\* the iteration broke (failed = TRUE); the loop ends, the map is copied to the
\* slice in the map's iteration order and GetTables returns (tables, nil)
RowsEnd(failed) ==
  /\ pc = "rows"
  /\ failed \/ pos = Len(rows)
  /\ rowsErr' = failed
  /\ tables' \in SlicesOf(tablesMap)
  /\ pc' = "build"
  /\ UNCHANGED <<rows, pos, tablesMap, block, todo, dirs, files, outcome>>
  /\ UNCHANGED mapperVars

\* block := builder.Build(tables)
BuildUnits ==
  /\ pc = "build"
  /\ block' = Build(tables)
  /\ pc' = "write"
  /\ UNCHANGED <<rows, pos, rowsErr, tablesMap, tables, todo, dirs, files, outcome>>
  /\ UNCHANGED mapperVars

\* writer.Write up to its loop: os.MkdirAll(dest)
WriteBegin(ok) ==
  /\ pc = "write"
  /\ IF ok THEN /\ pc' = "writing"
                /\ todo' = DOMAIN block
                /\ UNCHANGED outcome
           ELSE /\ pc' = "fatal"
                /\ outcome' = MsgWriteFailed
                /\ UNCHANGED todo
  /\ UNCHANGED <<rows, pos, rowsErr, tablesMap, tables, block, dirs, files>>
  /\ UNCHANGED mapperVars

WriteResults == {"mkdir_fail", "create_fail", "write_fail", "ok"}

\* what a failed WriteString may leave in the file
PartialContents(content) ==
  {SubSeq(content, 1, n) : n \in {0, Len(content) \div 2, Len(content) - 1}}

\* mutant: the loop goes on to the next entry after a failure
WriteFile_KeepGoing(filename, result) ==
  /\ pc = "writing"
  /\ filename \in todo
  /\ result \in WriteResults
  /\ dirs' = IF result = "mkdir_fail" THEN dirs ELSE dirs \cup {filename}
  /\ CASE result = "ok" -> files' = Put(files, filename, block[filename])
       [] result = "write_fail" ->
            \E partial \in PartialContents(block[filename]) :
              files' = Put(files, filename, partial)
       [] result = "create_fail" -> UNCHANGED files
       [] result = "mkdir_fail" -> UNCHANGED files
  /\ todo' = todo \ {filename}
  /\ UNCHANGED <<pc, outcome>>
  /\ UNCHANGED <<rows, pos, rowsErr, tablesMap, tables, block>>
  /\ UNCHANGED mapperVars

\* one iteration of the loop of writer.Write, on the key the range yields
WriteFile(filename, result) ==
  /\ pc = "writing"
  /\ filename \in todo
  /\ result \in WriteResults
  /\ dirs' = IF result = "mkdir_fail" THEN dirs ELSE dirs \cup {filename}
  /\ CASE result = "ok" -> files' = Put(files, filename, block[filename])
       [] result = "write_fail" ->
            \E partial \in PartialContents(block[filename]) :
              files' = Put(files, filename, partial)
       [] result = "create_fail" -> UNCHANGED files
       [] result = "mkdir_fail" -> UNCHANGED files
  /\ IF result = "ok"
     THEN /\ todo' = todo \ {filename}
          /\ UNCHANGED <<pc, outcome>>
     ELSE /\ pc' = "fatal"
          /\ outcome' = MsgWriteFailed
          /\ UNCHANGED todo
  /\ UNCHANGED <<rows, pos, rowsErr, tablesMap, tables, block>>
  /\ UNCHANGED mapperVars

\* the loop is over: Write returns nil, generateTypes prints the success line
WriteEnd ==
  /\ pc = "writing"
  /\ todo = {}
  /\ pc' = "done"
  /\ outcome' = MsgSuccess
  /\ UNCHANGED <<rows, pos, rowsErr, tablesMap, tables, block, todo, dirs, files>>
  /\ UNCHANGED mapperVars

Next ==
  \/ QueryFail
  \/ QueryOk
  \/ ScanRow
  \/ ScanFail
  \/ \E failed \in BOOLEAN : RowsEnd(failed)
  \/ BuildUnits
  \/ \E ok \in BOOLEAN : WriteBegin(ok)
  \/ \E filename \in todo, result \in WriteResults : WriteFile(filename, result)
  \/ WriteEnd

Spec == Init /\ [][Next]_vars

(***************************************************************************)
(* Build called on one table                                               *)
(***************************************************************************)
BuilderTableNames == {"users", "t"}

BuilderColumns == {
  [Name |-> "id",             Type |-> "serial",        Nullable |-> FALSE],
  [Name |-> "google_user_id", Type |-> "varchar(100)",  Nullable |-> TRUE],
  [Name |-> "price",          Type |-> "numeric",       Nullable |-> FALSE],
  [Name |-> "total",          Type |-> "numeric(10,2)", Nullable |-> TRUE],
  [Name |-> "created_at",     Type |-> "timestamp",     Nullable |-> FALSE],
  [Name |-> "updated_at",     Type |-> "timestamptz",   Nullable |-> TRUE],
  [Name |-> "uid",            Type |-> "UUID",          Nullable |-> FALSE],
  [Name |-> "meta",           Type |-> "jsonb",         Nullable |-> TRUE] }

\* a column name occurs once in a table
BuilderTables ==
  {[Name |-> n, Columns |-> cols] :
     n \in BuilderTableNames,
     cols \in {q \in SeqsUpTo(BuilderColumns, MaxCols) :
                 \A i, j \in DOMAIN q : i # j => q[i].Name # q[j].Name}}

\* generateTypes at the call of Build, GetTables having returned one table
InitBuilder ==
  /\ pc = "build"
  /\ \E t \in BuilderTables : tables = <<t>>
  /\ rows = <<>>
  /\ pos = 0
  /\ rowsErr = FALSE
  /\ tablesMap = EmptyMap
  /\ block = EmptyMap
  /\ todo = {}
  /\ dirs = {}
  /\ files = EmptyMap
  /\ outcome = MsgNone
  /\ MapperIdle

SpecBuilder == InitBuilder /\ [][BuildUnits]_vars

(***************************************************************************)
(* The type mapper on one column                                           *)
(***************************************************************************)
\* names the switch does not list
UnlistedNames == {"foo", "foo[]", "citext", "user-defined", "array", "uuid[]", "numeric[]", ""}

MapperColumnNames == {"id", "first_name"}

OtherTypes == {"foo", "bar[]"}

RECURSIVE Spaces(_)
Spaces(n) == IF n = 0 THEN "" ELSE " " \o Spaces(n - 1)

Suffixes == {"", "(255)", " (10,2)"}

\* a spelling of the type name: letter case, surrounding whitespace, suffix
Spelling(name, upper, lead, trail, suffix) ==
  Spaces(lead) \o (IF upper THEN ToUpper(name) ELSE name) \o suffix \o Spaces(trail)

RunIdle ==
  /\ pc = "idle" /\ rows = <<>> /\ pos = 0 /\ rowsErr = FALSE /\ tablesMap = EmptyMap
  /\ tables = <<>> /\ block = EmptyMap /\ todo = {} /\ dirs = {} /\ files = EmptyMap
  /\ outcome = MsgNone

InitMapper ==
  /\ RunIdle
  /\ mBase \in ListedNames \cup UnlistedNames
  /\ \E upper \in BOOLEAN, lead \in 0..MaxPad, trail \in 0..MaxPad, suffix \in Suffixes :
       mType = Spelling(mBase, upper, lead, trail, suffix)
  /\ mName \in MapperColumnNames
  /\ mRes = EmptyMap

mColumn(nullable) == [Name |-> mName, Type |-> mType, Nullable |-> nullable]

\* the table of the column and a second column of an unlisted type
mTable(other) ==
  [Name |-> "t",
   Columns |-> <<mColumn(FALSE), [Name |-> "extra", Type |-> other, Nullable |-> TRUE]>>]

\* postgresTypeToGoType on the spelling and on the name itself
ApplyMapper ==
  /\ "goType" \notin DOMAIN mRes
  /\ mRes' = Put(Put(mRes, "goType", postgresTypeToGoType(mType)),
                 "baseGoType", postgresTypeToGoType(mBase))
  /\ UNCHANGED <<mBase, mType, mName>>
  /\ UNCHANGED runVars

AliasKey(nullable) == IF nullable THEN "aliasNullable" ELSE "alias"

\* buildType on the column
ApplyBuildType(nullable) ==
  /\ AliasKey(nullable) \notin DOMAIN mRes
  /\ mRes' = Put(mRes, AliasKey(nullable), buildType(mColumn(nullable)))
  /\ UNCHANGED <<mBase, mType, mName>>
  /\ UNCHANGED runVars

\* buildImports on the table
ApplyBuildImports ==
  /\ "imports" \notin DOMAIN mRes
  /\ \E other \in OtherTypes : mRes' = Put(mRes, "imports", buildImports(mTable(other)))
  /\ UNCHANGED <<mBase, mType, mName>>
  /\ UNCHANGED runVars

NextMapper ==
  \/ ApplyMapper
  \/ \E nullable \in BOOLEAN : ApplyBuildType(nullable)
  \/ ApplyBuildImports

SpecMapper == InitMapper /\ [][NextMapper]_vars

(***************************************************************************)
(* Reading a generated unit                                                *)
(***************************************************************************)
\* the lines of a text, each ended by a line feed
UnitLines(text) ==
  LET parts == Split(text, "\n")
  IN  IF parts[Len(parts)] = "" THEN SubSeq(parts, 1, Len(parts) - 1) ELSE parts

RECURSIVE DropTrailingBlank(_)
DropTrailingBlank(lines) ==
  IF Len(lines) > 0 /\ lines[Len(lines)] = ""
  THEN DropTrailingBlank(SubSeq(lines, 1, Len(lines) - 1)) ELSE lines

FirstIndex(lines, l) ==
  IF \E i \in DOMAIN lines : lines[i] = l
  THEN CHOOSE i \in DOMAIN lines : lines[i] = l /\ \A j \in 1..(i - 1) : lines[j] # l
  ELSE 0

\* the lines between the line open and the next line close
Between(lines, open, close) ==
  LET h    == FirstIndex(lines, open)
      rest == SubSeq(lines, h + 1, Len(lines))
      e    == FirstIndex(rest, close)
  IN  IF h = 0 \/ e = 0 THEN <<>> ELSE SubSeq(rest, 1, e - 1)

IsAliasLine(l) == HasPrefix(l, "type ") /\ Index(l, " = ") # -1

AliasLines(text)  == SelectSeq(UnitLines(text), IsAliasLine)
ImportLines(text) == Between(UnitLines(text), "import (", ")")
FieldLines(text, tableName) ==
  Between(UnitLines(text), "type " \o tableName \o "ColumnNames struct {", "}")
EntryLines(text, tableName) ==
  Between(UnitLines(text), "var C = " \o tableName \o "ColumnNames{", "}")

\* the four imports, in the documented order
ImportOrder == <<"encoding/json", "github.com/shopspring/decimal", "time", "github.com/google/uuid">>

\* the package a type expression of the mapper is qualified with, "" for none
PackageOf(goType) ==
  IF HasPrefix(goType, "json.") THEN "encoding/json"
  ELSE IF HasPrefix(goType, "decimal.") THEN "github.com/shopspring/decimal"
  ELSE IF HasPrefix(goType, "time.") THEN "time"
  ELSE IF HasPrefix(goType, "uuid.") THEN "github.com/google/uuid"
  ELSE ""

\* the packages the mapped column types of a table use
RequiredImports(t) ==
  {PackageOf(postgresTypeToGoType(t.Columns[i].Type)) : i \in DOMAIN t.Columns} \ {""}

Built == pc = "write"

(***************************************************************************)
(* Claims about Build                                                      *)
(***************************************************************************)

\* C1: in every unit Build returns, each of the four imports is listed if and
\* only if some column of the table is mapped to a type expression that uses
\* that package.
C1_ImportIffRequired ==
  Built =>
    \A i \in DOMAIN tables : \A k \in DOMAIN ImportOrder :
      (\E j \in DOMAIN ImportLines(block[tables[i].Name]) :
          ImportLines(block[tables[i].Name])[j] = "\t" \o Quote(ImportOrder[k]))
        <=> ImportOrder[k] \in RequiredImports(tables[i])

\* C7: the import block of a unit is the list of the imports its columns
\* require, each once, in the order json, decimal, time, uuid, whatever the
\* number and order of the columns requiring them (no block when none is).
C7_ImportBlockByRequirement ==
  Built =>
    \A i \in DOMAIN tables :
      LET required == SelectSeq(ImportOrder,
                                LAMBDA pkg : pkg \in RequiredImports(tables[i]))
      IN  /\ ImportLines(block[tables[i].Name])
               = [k \in DOMAIN required |-> "\t" \o Quote(required[k])]
          /\ (required = <<>>) <=>
               (FirstIndex(UnitLines(block[tables[i].Name]), "import (") = 0)

\* C5: a unit has one type alias, one struct field and one entry of C per
\* column, in column order; field and entry carry the PascalCase name, the
\* entry's value is the raw column name.
C5_OnePerColumn ==
  Built =>
    \A i \in DOMAIN tables :
      LET t       == tables[i]
          n       == Len(t.Columns)
          text    == block[t.Name]
          aliases == AliasLines(text)
          fields  == FieldLines(text, t.Name)
          entries == EntryLines(text, t.Name)
      IN  /\ FirstIndex(UnitLines(text), "type " \o t.Name \o "ColumnNames struct {") # 0
          /\ FirstIndex(UnitLines(text), "var C = " \o t.Name \o "ColumnNames{") # 0
          /\ Len(aliases) = n /\ Len(fields) = n /\ Len(entries) = n
          /\ \A k \in 1..n :
               /\ HasPrefix(aliases[k], "type " \o toPascalCase(t.Columns[k].Name) \o " = ")
               /\ fields[k] = "\t" \o toPascalCase(t.Columns[k].Name) \o " string"
               /\ entries[k] = "\t" \o toPascalCase(t.Columns[k].Name) \o ": "
                                 \o Quote(t.Columns[k].Name) \o ","

C5_Witness ==
  /\ Built
  /\ Len(tables[1].Columns) = MaxCols
  /\ tables[1].Columns[1].Name = "google_user_id"
  /\ tables[1].Columns[MaxCols].Name = "id"
  /\ Len(AliasLines(block[tables[1].Name])) = MaxCols
  /\ EntryLines(block[tables[1].Name], tables[1].Name)[1] = "\tGoogleUserId: \"google_user_id\","

\* the documented layout of the unit of table t, line by line
DocumentedLayout(t) ==
  LET required == SelectSeq(ImportOrder, LAMBDA pkg : pkg \in RequiredImports(t))
      cols     == t.Columns
  IN  <<"package " \o t.Name, "">>
        \o (IF required = <<>> THEN <<>>
            ELSE <<"import (">> \o [k \in DOMAIN required |-> "\t" \o Quote(required[k])]
                   \o <<")", "">>)
        \o [k \in DOMAIN cols |->
              "type " \o toPascalCase(cols[k].Name) \o " = "
                \o (IF cols[k].Nullable THEN "*" ELSE "")
                \o postgresTypeToGoType(cols[k].Type)]
        \o <<"", "type " \o t.Name \o "ColumnNames struct {">>
        \o [k \in DOMAIN cols |-> "\t" \o toPascalCase(cols[k].Name) \o " string"]
        \o <<"}", "", "var C = " \o t.Name \o "ColumnNames{">>
        \o [k \in DOMAIN cols |->
              "\t" \o toPascalCase(cols[k].Name) \o ": " \o Quote(cols[k].Name) \o ","]
        \o <<"}", "", "var Table = " \o Quote(t.Name)>>

\* C8: the lines of a unit are the documented layout (blank lines after the
\* last line aside): in particular one blank line after the package line,
\* with or without an import block.
C8_UnitLayout ==
  Built =>
    \A i \in DOMAIN tables :
      DropTrailingBlank(UnitLines(block[tables[i].Name])) = DocumentedLayout(tables[i])

(***************************************************************************)
(* Claims about a run                                                      *)
(***************************************************************************)
IntrospectionFailed == rowsErr \/ outcome \in {MsgQueryFailed, MsgScanFailed}

\* C2: when the query fails, a scan fails or the row iteration ends with an
\* error, the run is fatal: Build is not called and nothing is written.
C2_IntrospectionFailureWritesNothing ==
  IntrospectionFailed =>
    /\ pc = "fatal"
    /\ block = EmptyMap
    /\ dirs = {}
    /\ files = EmptyMap

\* the entries the loop of Write has gone past
Visited == DOMAIN block \ todo

\* C6: a failure in the loop of Write ends the run at once as fatal, with the
\* failure reported and no success line; no entry after the failing one is
\* touched; the files written before it keep their content.
C6_WriteFailureStops ==
  [][ /\ pc # "fatal"
      /\ pc = "writing" =>
           /\ \A f \in Visited :
                /\ f \in DOMAIN files /\ files[f] = block[f]
                /\ f \in DOMAIN files' /\ files'[f] = files[f]
           /\ pc' # "fatal" =>
                \A f \in DOMAIN block \ todo' : f \in DOMAIN files' /\ files'[f] = block[f]
           /\ pc' = "fatal" =>
                /\ outcome' = MsgWriteFailed
                /\ todo' = todo
                /\ Cardinality((dirs' \cup DOMAIN files') \cap todo') <= 1
      /\ pc' = "done" =>
           /\ outcome' = MsgSuccess
           /\ \A f \in DOMAIN block : f \in DOMAIN files' /\ files'[f] = block[f]
    ]_vars

C6_Witness ==
  /\ pc = "fatal"
  /\ outcome = MsgWriteFailed
  /\ \E f \in Visited : f \in DOMAIN files /\ files[f] = block[f]
  /\ \E g \in todo : g \in DOMAIN files /\ files[g] # block[g]

(***************************************************************************)
(* Claims about the type mapper                                            *)
(***************************************************************************)
Mapped == "goType" \in DOMAIN mRes

AliasPrefix == "type " \o toPascalCase(mName) \o " = "

\* the type expression of an alias line
AliasExpr(line) == SubSeq(line, Len(AliasPrefix) + 1, Len(line))

\* C3: for a type whose normalized name is listed, the alias of the nullable
\* column is the alias of the non-nullable column with "*" put before the
\* type expression, and the non-nullable expression has no "*".
C3_NullableMarker ==
  (/\ normalizeType(mType) \in ListedNames
   /\ "alias" \in DOMAIN mRes
   /\ "aliasNullable" \in DOMAIN mRes) =>
    /\ HasPrefix(mRes["alias"], AliasPrefix)
    /\ ~HasPrefix(AliasExpr(mRes["alias"]), "*")
    /\ mRes["aliasNullable"] = AliasPrefix \o "*" \o AliasExpr(mRes["alias"])

C3_Witness ==
  /\ mBase = "int4[]"
  /\ mType # mBase
  /\ mName = "first_name"
  /\ "alias" \in DOMAIN mRes
  /\ "aliasNullable" \in DOMAIN mRes
  /\ mRes["aliasNullable"] = "type FirstName = *[]int32"

Unlisted == normalizeType(mType) \notin ListedNames

\* C4 as stated: every type whose normalized name is not listed maps to
\* "string", names ending in "[]" included, and gives no import block.
C4_UnlistedIsString ==
  Unlisted =>
    /\ Mapped => mRes["goType"] = "string"
    /\ "imports" \in DOMAIN mRes => mRes["imports"] = ""

\* C4 amended: a type whose normalized name is not listed maps to "string",
\* unless the normalized name ends in "[]", when it maps to "[]interface{}";
\* a table of such columns has no import block.
C4_UnlistedFallback ==
  Unlisted =>
    /\ Mapped =>
         mRes["goType"] = IF HasSuffix(normalizeType(mType), "[]")
                          THEN "[]interface{}" ELSE "string"
    /\ "imports" \in DOMAIN mRes => mRes["imports"] = ""

C4_Witness ==
  /\ Unlisted
  /\ mBase = "uuid[]"
  /\ mType = " UUID[](255)"
  /\ Mapped
  /\ mRes["goType"] = "[]interface{}"
  /\ "imports" \in DOMAIN mRes
  /\ mRes["imports"] = ""

\* the rows of the README's Type Mapping table
ReadmeTypeMapping == <<
  [pg |-> {"SERIAL", "INTEGER"},   go |-> "int32"],
  [pg |-> {"BIGSERIAL", "BIGINT"}, go |-> "int64"],
  [pg |-> {"VARCHAR", "TEXT"},     go |-> "string"],
  [pg |-> {"BOOLEAN"},             go |-> "bool"],
  [pg |-> {"TIMESTAMP"},           go |-> "time.Time"],
  [pg |-> {"DATE"},                go |-> "time.Time"],
  [pg |-> {"DECIMAL", "NUMERIC"},  go |-> "float64"],
  [pg |-> {"UUID"},                go |-> "string"],
  [pg |-> {"JSONB"},               go |-> "[]byte"] >>

\* C9: a column of a type of the README's table gets the Go type of its row,
\* with "*" before it when the column is nullable.
C9_ReadmeTypeMapping ==
  \A r \in DOMAIN ReadmeTypeMapping :
    mType \in ReadmeTypeMapping[r].pg =>
      /\ "alias" \in DOMAIN mRes =>
           mRes["alias"] = AliasPrefix \o ReadmeTypeMapping[r].go
      /\ "aliasNullable" \in DOMAIN mRes =>
           mRes["aliasNullable"] = AliasPrefix \o "*" \o ReadmeTypeMapping[r].go

\* C10: every spelling of a listed type name (letter case, surrounding
\* whitespace, parenthesized suffix with or without a space before it) maps to
\* the type expression of the name itself.
C10_SpellingInvariance ==
  (mBase \in ListedNames /\ Mapped) => mRes["goType"] = mRes["baseGoType"]

====
